---- MODULE Spec2Model ----
(***************************************************************************)
(* A model of the Gopher repair engine.                                    *)
(*                                                                         *)
(*   Spec        GopherWorkflow.run_repair: the round loop, the target     *)
(*               file with its backup (FileManager), the sandbox.          *)
(*   SpecStitch  the context renderers as functions of their inputs:       *)
(*               ContextBuilder._stitch_code and build_mixed_context,      *)
(*               PeripheralContextExtractor._create_skeleton,              *)
(*               FocusedSlicer.generate_slices.                            *)
(*   SpecTokens  TokenManager.optimize_prompt, PromptComposer's            *)
(*               construct_prompt (the templates it chooses and the        *)
(*               assembly of the prompt) and get_context_for_round, with   *)
(*               a text represented by the sequence of its tokens.         *)
(*   SpecRetry   retry_with_backoff's wrapper around one completion call.  *)
(*   SpecParse   FocusedSlicer._run_slicing_strategy on what the           *)
(*               dependency query prints.                                  *)
(*   SpecRanges  PeripheralContextExtractor.generate_context and           *)
(*               ContextBuilder.build_mixed_context on what the            *)
(*               structural query prints.                                  *)
(*   SpecTwoSessions  the file operations of two run_repair calls on one   *)
(*               target file, interleaved.                                 *)
(*                                                                         *)
(* The round loop is split at its calls to the outside (the completion     *)
(* service, the code-block extraction, the file system, the validator):    *)
(* each action is the code between two such calls.  The exceptions that    *)
(* leave run_repair are the ones its code lets through: a failed backup or *)
(* sandbox start, a prompt that cannot be composed, and an interrupt.      *)
(* GopherWorkflow._extract_code_block and _record_patch have no body in    *)
(* the sources; they are modelled from the design text (a code block or    *)
(* none; the patch is appended to what was recorded).                      *)
(***************************************************************************)
EXTENDS Integers, Sequences, FiniteSets, TLC

\* ---------------------------------------------------------------- bounds
\* The largest strategy.max_iterations a session is configured with.
MaxRounds == 3
\* How many sessions run one after the other on the same target file.
MaxSessions == 2
\* The longest source, in lines, and the longest list of ranges.
MaxLines == 3
MaxRanges == 2
\* The widest safe limit (context window less the output reserve), the
\* longest leading text, context and feedback, and the length of the
\* truncation notice, all in tokens.
MaxSafeLimit == 12
MaxLeading == 2
MaxContext == 4
MaxFeedback == 4
NoticeTokens == 3
\* The largest round number construct_prompt is called with.
MaxRoundNum == 5
\* The largest max_retries and backoff_factor of retry_with_backoff.
MaxRetries == 3
\* The most lines a query prints and the most entries of a printed list.
MaxOutLines == 2
MaxEntries == 2
\* The most items of a printed list of ranges and the most lines the
\* structural query prints.
MaxItems == 2
MaxRangeLines == 2
MaxFactor == 2

\* ------------------------------------------------------------- workflow
VARIABLES
    pc,                \* where run_repair stands
    file,              \* content of artifact.file_path
    bak,               \* content of artifact.file_path + ".bak", or NoBackup
    max_rounds,        \* self.max_rounds, read from the configuration once
    round_num,         \* the loop variable of "for round_num in range(...)"
    last_test_result,  \* the local last_test_result
    patch,             \* the round's CandidatePatch, or NoPatch
    container,         \* the sandbox of provision_container
    outcome,           \* how run_repair ended
    context_empty,     \* session.context.is_empty()
    context,           \* session.context
    analysis_failed,   \* history: whether the analysis of lines 58-71 raised
    feedback_history,  \* session.feedback_history
    recorded,          \* what _record_patch was handed, in order
    pre,               \* history: the file's content when run_repair was called
    log,               \* history: the calls of this session's rounds, in order
    sessions           \* how many sessions have been started

wfVars == <<pc, file, bak, max_rounds, round_num, last_test_result, patch,
            container, outcome, context_empty, context, analysis_failed,
            feedback_history, recorded, pre, log, sessions>>

\* What a round leaves alone of the session object.
sessionObj == <<context_empty, context, analysis_failed, feedback_history>>

\* ------------------------------------------------------ context stitching
VARIABLES
    st_op,           \* the operation that has run on the inputs, or "input"
    source,          \* artifact.source_code
    slice_lines,     \* _stitch_code's slice_lines (the must-keep set)
    ranges_to_hide,  \* the {start, end} ranges of the structural query
    ddg_lines,       \* what the data-dependency query gave
    cdg_lines,       \* what the control-dependency query gave
    buggy_line_no,   \* artifact.buggy_line_no
    st_done,         \* whether the operation st_op has run
    rendering,       \* the strings the operation returned, in order
    used_lines       \* history: the line set each rendering was built from

stVars == <<st_op, st_done, source, slice_lines, ranges_to_hide, ddg_lines,
            cdg_lines, buggy_line_no, rendering, used_lines>>

\* ---------------------------------------------------------- token budget
VARIABLES
    tk_op,               \* the call made on the inputs: "optimize", "construct"
    tk_done,             \* whether it has run
    max_context_length,  \* TokenManager.max_context_length
    leading_text,        \* construct_prompt's leading_text
    buggy_code_text,     \* its buggy_code_text
    trailing_text,       \* its trailing_text
    context_text,        \* the rendered context of the round
    feedback_text,       \* the rendered feedback
    optimized_context,   \* what optimize_prompt returned
    full_prompt,         \* what construct_prompt returned, part by part
    tk_round_num,        \* the round_num argument
    tk_test_result,      \* the test_result argument: "None", "failed", "passed"
    tk_session_empty,    \* session.context.is_empty()
    context_mode,        \* the key of the context template that was chosen
    feedback_mode        \* the key of the feedback template that was chosen

tkVars == <<tk_op, tk_done, max_context_length, leading_text, buggy_code_text,
            trailing_text, context_text, feedback_text, optimized_context,
            full_prompt, tk_round_num, tk_test_result, tk_session_empty,
            context_mode, feedback_mode>>

\* ------------------------------------------------------ retry wrapper
VARIABLES
    rt_pc,            \* "off", "loop" (at the while test), "returned", "raised"
    max_retries,      \* retry_with_backoff's max_retries
    backoff_factor,   \* its backoff_factor
    retry_count,      \* the wrapper's retry_count
    last_exception,   \* the wrapper's last_exception
    rt_result,        \* what the wrapper returned or raised
    trace             \* history: the calls of func and of time.sleep, in order

rtVars == <<rt_pc, max_retries, backoff_factor, retry_count, last_exception,
            rt_result, trace>>

\* ------------------------------------- two sessions on one target file
VARIABLES
    cc_pc,      \* where each session's run_repair stands
    cc_round,   \* each session's round_num
    cc_file,    \* content of the file both artifacts name
    cc_bak      \* content of its ".bak", or NoBackup

ccVars == <<cc_pc, cc_round, cc_file, cc_bak>>

\* -------------------------------------------- dependency-query output
VARIABLES
    ps_query,   \* what execute_query_script does: it raises, or its output
    ps_done,    \* whether _run_slicing_strategy has run
    ps_parsed,  \* what _parse_joern_list_output returned, or that it raised
    ps_result   \* what _run_slicing_strategy returned, or that it raised

\* ----------------------------------------------- structural-query output
VARIABLES
    rg_op,      \* the call made: "generate_context", "build_mixed_context"
    rg_query,   \* what execute_query_script does with the skeleton script
    rg_done,    \* whether the call has run
    rg_ranges,  \* what _parse_ranges returned, or that it raised
    rg_result   \* what the call returned, or that it raised

rgVars == <<rg_op, rg_query, rg_done, rg_ranges, rg_result>>

psVars == <<ps_query, ps_done, ps_parsed, ps_result, rgVars>>

otherVars == <<stVars, tkVars, rtVars, ccVars, psVars>>

vars == <<wfVars, stVars, tkVars, rtVars, ccVars, psVars>>

NoBackup == "no_backup"
NoResult == [round |-> 0, passed |-> FALSE, kind |-> "None"]
NoPatch == [round |-> 0, status |-> "none", code |-> "none", has_result |-> FALSE,
            passed |-> FALSE]

\* What the completion service may answer with.
Patches == {"p1", "p2"}
Original == "orig"
\* A file that open(..., 'w') truncated before the write failed.
Partial == "partial"

\* PatchStatus
GENERATED == "GENERATED"
COMPILATION_FAILED == "COMPILE_ERR"
TEST_FAILED == "TEST_FAIL"
PLAUSIBLE == "PLAUSIBLE"

\* _extract_code_block: some code block, or None.
NoCode == "None"
ExtractCodeBlock == Patches \cup {NoCode}

\* _record_patch
RecordPatch(rec, p) == Append(rec, p)

\* TestResult(passed, ...): the round that made it is its identity.
TestResult(r, p, k) == [round |-> r, passed |-> p, kind |-> k]

\* FileManager.backup_file on an existing file: an existing backup is kept.
BackupFile(f, b) == IF b # NoBackup THEN b ELSE f

\* FileManager.restore_file: without a backup the file is left as it is.
RestoreFile(f, b) == IF b = NoBackup THEN f ELSE b

\* PromptComposer.construct_prompt's feedback mode (composer.py, line 79).
FeedbackMode(tr) == IF tr # NoResult /\ ~tr.passed THEN "failure" ELSE "initial"

Event(e, r, res, m) == [ev |-> e, round |-> r, res |-> res, mode |-> m]

\* DualLayerContext(): the three renderings empty.
DualLayerContext ==
    [data_dependency_slice |-> "", control_dependency_slice |-> "",
     peripheral_context |-> ""]

\* DualLayerContext.is_empty
IsEmpty(c) == ~(c.data_dependency_slice # "" \/ c.peripheral_context # "")

\* What lines 59-71 build when nothing raises: nothing (no graph path), the
\* skeleton alone (no slice line lies in the source), or all three.
BuiltContexts ==
    {[data_dependency_slice |-> d[1], control_dependency_slice |-> d[1],
      peripheral_context |-> d[2]] :
        d \in {<<"", "">>, <<"", "skeleton">>, <<"slice", "skeleton">>}}

\* The handler of lines 73-75 keeping what was built before the failure.
AnalysisContextsKept(failed) == BuiltContexts

\* Lines 58-75: the context of the session when the analysis raised, and
\* when it did not.
AnalysisContexts(failed) == IF failed THEN {DualLayerContext} ELSE BuiltContexts

\* The first value of range(1, max_rounds + 1) after r.
NextRound(r) == r + 1

Running == pc \in {"loop", "generate", "extract", "write", "validate"}

\* Raise without the finally of provision_container.
RaiseLeaking(how) ==
    /\ pc' = "done"
    /\ outcome' = how
    /\ container' = container

\* The session ends by an exception leaving run_repair; leaving the with
\* block stops the sandbox.
Raise(how) ==
    /\ pc' = "done"
    /\ outcome' = how
    /\ container' = IF container = "up" THEN "down" ELSE container

WfInit ==
    /\ pc = "idle"
    /\ file = Original
    /\ bak = NoBackup
    /\ max_rounds \in 0..MaxRounds
    /\ round_num = 0
    /\ last_test_result = NoResult
    /\ patch = NoPatch
    /\ container = "none"
    /\ outcome = "none"
    /\ context_empty = TRUE
    /\ context = DualLayerContext
    /\ analysis_failed = FALSE
    /\ feedback_history = <<>>
    /\ recorded = <<>>
    /\ pre = Original
    /\ log = <<>>
    /\ sessions = 0

\* run_repair, lines 50-90: backup, analysis, session, sandbox.
StartSession ==
    /\ pc \in {"idle", "done"}
    /\ sessions < MaxSessions
    /\ sessions' = sessions + 1
    /\ pre' = file
    /\ round_num' = 0
    /\ last_test_result' = NoResult
    /\ patch' = NoPatch
    /\ recorded' = <<>>
    /\ log' = <<>>
    /\ UNCHANGED max_rounds
    /\ bak' = BackupFile(file, bak)
    /\ \E failed \in BOOLEAN :
          /\ analysis_failed' = failed
          /\ context' \in AnalysisContexts(failed)
    /\ context_empty' = IsEmpty(context')
    /\ feedback_history' = <<>>
    /\ container' = "up"
    /\ outcome' = "none"
    /\ pc' = "loop"
    /\ UNCHANGED file
    /\ UNCHANGED otherVars

\* backup_file raises FileOperationError (line 49), or the sandbox cannot be
\* provisioned (container.py, line 67): run_repair raises before round 1.
StartSessionRaises ==
    /\ pc \in {"idle", "done"}
    /\ sessions < MaxSessions
    /\ sessions' = sessions + 1
    /\ pre' = file
    /\ round_num' = 0
    /\ last_test_result' = NoResult
    /\ patch' = NoPatch
    /\ recorded' = <<>>
    /\ log' = <<>>
    /\ UNCHANGED max_rounds
    /\ \/ /\ bak' = bak
          /\ analysis_failed' = FALSE
          /\ context' = DualLayerContext
       \/ /\ bak' = BackupFile(file, bak)
          /\ \E failed \in BOOLEAN :
                /\ analysis_failed' = failed
                /\ context' \in AnalysisContexts(failed)
    /\ context_empty' = IsEmpty(context')
    /\ feedback_history' = <<>>
    /\ container' = "none"
    /\ outcome' = "error"
    /\ pc' = "done"
    /\ UNCHANGED file
    /\ UNCHANGED otherVars

\* Lines 92-94: the next round number, and construct_prompt.
Compose ==
    /\ pc = "loop"
    /\ round_num < max_rounds
    /\ round_num' = NextRound(round_num)
    /\ log' = Append(log, Event("compose", NextRound(round_num), last_test_result,
                                FeedbackMode(last_test_result)))
    /\ patch' = NoPatch
    /\ pc' = "generate"
    /\ UNCHANGED <<file, bak, max_rounds, last_test_result, container, outcome,
                   sessionObj, recorded, pre, sessions>>
    /\ UNCHANGED otherVars

\* construct_prompt raises (a template key is missing): nothing catches it.
ComposeRaises ==
    /\ pc = "loop"
    /\ round_num < max_rounds
    /\ round_num' = NextRound(round_num)
    /\ Raise("error")
    /\ UNCHANGED <<file, bak, max_rounds, last_test_result, patch, sessionObj,
                   recorded, pre, log, sessions>>
    /\ UNCHANGED otherVars

\* Lines 96-101: the completion call returns.
GenerateOk ==
    /\ pc = "generate"
    /\ log' = Append(log, Event("generate", round_num, NoResult, "ok"))
    /\ pc' = "extract"
    /\ UNCHANGED <<file, bak, max_rounds, round_num, last_test_result, patch,
                   container, outcome, sessionObj, recorded, pre, sessions>>
    /\ UNCHANGED otherVars

\* GenerateFails with the round handed back: the failed round is tried again.
GenerateFailsRetry ==
    /\ pc = "generate"
    /\ log' = Append(log, Event("generate", round_num, NoResult, "failed"))
    /\ round_num' = round_num - 1
    /\ pc' = "loop"
    /\ UNCHANGED <<file, bak, max_rounds, last_test_result, patch,
                   container, outcome, sessionObj, recorded, pre, sessions>>
    /\ UNCHANGED otherVars

\* GenerateFails leaving a synthesized failure as the carried feedback.
GenerateFailsSetsFeedback ==
    /\ pc = "generate"
    /\ log' = Append(log, Event("generate", round_num, NoResult, "failed"))
    /\ last_test_result' = TestResult(round_num, FALSE, "generation_failed")
    /\ pc' = "loop"
    /\ UNCHANGED <<file, bak, max_rounds, round_num, patch,
                   container, outcome, sessionObj, recorded, pre, sessions>>
    /\ UNCHANGED otherVars

\* Lines 102-104: the completion call raises after its retries; continue.
GenerateFails ==
    /\ pc = "generate"
    /\ log' = Append(log, Event("generate", round_num, NoResult, "failed"))
    /\ pc' = "loop"
    /\ UNCHANGED <<file, bak, max_rounds, round_num, last_test_result, patch,
                   container, outcome, sessionObj, recorded, pre, sessions>>
    /\ UNCHANGED otherVars

\* Lines 106-118: a code block is found and the CandidatePatch is created.
ExtractBlock ==
    /\ pc = "extract"
    /\ \E code \in ExtractCodeBlock \ {NoCode} :
          patch' = [round |-> round_num, status |-> GENERATED, code |-> code,
                    has_result |-> FALSE, passed |-> FALSE]
    /\ pc' = "write"
    /\ UNCHANGED <<file, bak, max_rounds, round_num, last_test_result, container,
                   outcome, sessionObj, recorded, pre, log, sessions>>
    /\ UNCHANGED otherVars

\* ExtractNone without the assignment to last_test_result.
ExtractNoneKeepsOld ==
    /\ pc = "extract"
    /\ log' = Append(log, Event("extract", round_num,
                                TestResult(round_num, FALSE, "no_code_block"), "none"))
    /\ pc' = "loop"
    /\ UNCHANGED <<file, bak, max_rounds, round_num, last_test_result, patch,
                   container, outcome, sessionObj, recorded, pre, sessions>>
    /\ UNCHANGED otherVars

\* Lines 107-110: no code block; a failing result is synthesized; continue.
ExtractNone ==
    /\ pc = "extract"
    /\ NoCode \in ExtractCodeBlock
    /\ last_test_result' = TestResult(round_num, FALSE, "no_code_block")
    /\ log' = Append(log, Event("extract", round_num,
                                TestResult(round_num, FALSE, "no_code_block"), "none"))
    /\ pc' = "loop"
    /\ UNCHANGED <<file, bak, max_rounds, round_num, patch, container, outcome,
                   sessionObj, recorded, pre, sessions>>
    /\ UNCHANGED otherVars

\* Lines 122-126: write_patch (backup, then overwrite) and compute_diff.
WritePatch ==
    /\ pc = "write"
    /\ bak' = BackupFile(file, bak)
    /\ file' = patch.code
    /\ log' = Append(log, Event("write", round_num, NoResult, "ok"))
    /\ pc' = "validate"
    /\ UNCHANGED <<max_rounds, round_num, last_test_result, patch, container,
                   outcome, sessionObj, recorded, pre, sessions>>
    /\ UNCHANGED otherVars

\* WritePatchFails marking the patch as a failed test.
WritePatchFailsAsTestFailed ==
    /\ pc = "write"
    /\ bak' = BackupFile(file, bak)
    /\ file' \in {file, Partial}
    /\ patch' = [patch EXCEPT !.status = TEST_FAILED]
    /\ last_test_result' = TestResult(round_num, FALSE, "file_write_error")
    /\ recorded' = RecordPatch(recorded, patch')
    /\ log' = Append(log, Event("write", round_num,
                                TestResult(round_num, FALSE, "file_write_error"),
                                "failed"))
    /\ pc' = "loop"
    /\ UNCHANGED <<max_rounds, round_num, container, outcome, sessionObj,
                   pre, sessions>>
    /\ UNCHANGED otherVars

\* Lines 127-132: write_patch raises; the file is as it was (the open failed)
\* or truncated (the write failed); no restore_file call; continue.
WritePatchFails ==
    /\ pc = "write"
    /\ bak' = BackupFile(file, bak)
    /\ file' \in {file, Partial}
    /\ patch' = [patch EXCEPT !.status = COMPILATION_FAILED]
    /\ last_test_result' = TestResult(round_num, FALSE, "file_write_error")
    /\ recorded' = RecordPatch(recorded, patch')
    /\ log' = Append(log, Event("write", round_num,
                                TestResult(round_num, FALSE, "file_write_error"),
                                "failed"))
    /\ pc' = "loop"
    /\ UNCHANGED <<max_rounds, round_num, container, outcome, sessionObj,
                   pre, sessions>>
    /\ UNCHANGED otherVars

\* ValidatePass without its return: the loop goes on after a success.
ValidatePassContinues ==
    /\ pc = "validate"
    /\ log' = Append(log, Event("validate", round_num,
                                TestResult(round_num, TRUE, "tests"), "passed"))
    /\ last_test_result' = TestResult(round_num, TRUE, "tests")
    /\ patch' = [patch EXCEPT !.status = PLAUSIBLE, !.has_result = TRUE,
                              !.passed = TRUE]
    /\ recorded' = RecordPatch(recorded, patch')
    /\ file' = RestoreFile(file, bak)
    /\ pc' = "loop"
    /\ UNCHANGED <<bak, max_rounds, round_num, container, outcome, sessionObj,
                   pre, sessions>>
    /\ UNCHANGED otherVars

\* Lines 134-144: the validation passes; record, restore, return True.
ValidatePass ==
    /\ pc = "validate"
    /\ log' = Append(log, Event("validate", round_num,
                                TestResult(round_num, TRUE, "tests"), "passed"))
    /\ last_test_result' = TestResult(round_num, TRUE, "tests")
    /\ patch' = [patch EXCEPT !.status = PLAUSIBLE, !.has_result = TRUE,
                              !.passed = TRUE]
    /\ recorded' = RecordPatch(recorded, patch')
    /\ file' = RestoreFile(file, bak)
    /\ outcome' = "True"
    /\ container' = "down"
    /\ pc' = "done"
    /\ UNCHANGED <<bak, max_rounds, round_num, sessionObj, pre, sessions>>
    /\ UNCHANGED otherVars

\* Lines 134-150: the validation fails; record, restore, next round.
ValidateFail ==
    /\ pc = "validate"
    /\ log' = Append(log, Event("validate", round_num,
                                TestResult(round_num, FALSE, "tests"), "failed"))
    /\ last_test_result' = TestResult(round_num, FALSE, "tests")
    /\ patch' = [patch EXCEPT !.status = TEST_FAILED, !.has_result = TRUE]
    /\ recorded' = RecordPatch(recorded, patch')
    /\ file' = RestoreFile(file, bak)
    /\ pc' = "loop"
    /\ UNCHANGED <<bak, max_rounds, round_num, container, outcome, sessionObj,
                   pre, sessions>>
    /\ UNCHANGED otherVars

\* Lines 152-154: the rounds are used up; restore, return False.
Exhausted ==
    /\ pc = "loop"
    /\ round_num >= max_rounds
    /\ file' = RestoreFile(file, bak)
    /\ outcome' = "False"
    /\ container' = "down"
    /\ pc' = "done"
    /\ UNCHANGED <<bak, max_rounds, round_num, last_test_result, patch,
                   sessionObj, recorded, pre, log, sessions>>
    /\ UNCHANGED otherVars

\* A KeyboardInterrupt (main_generator.py, line 177) while a round runs: no
\* handler of run_repair catches it (they catch Exception), so it leaves
\* run_repair from where the session stands.
Interrupt ==
    /\ Running
    /\ Raise("interrupted")
    /\ UNCHANGED <<file, bak, max_rounds, round_num, last_test_result, patch,
                   sessionObj, recorded, pre, log, sessions>>
    /\ UNCHANGED otherVars

RoundStep ==
    \/ Compose
    \/ ComposeRaises
    \/ GenerateOk
    \/ GenerateFails
    \/ ExtractBlock
    \/ ExtractNone
    \/ WritePatch
    \/ WritePatchFails
    \/ ValidatePass
    \/ ValidateFail
    \/ Exhausted

Next ==
    \/ StartSession
    \/ StartSessionRaises
    \/ RoundStep
    \/ Interrupt


\* ------------------------------------------------------ context stitching
\* A string is its lines and whether a line break ends it; a line is its
\* leading whitespace (ind) and what it says.  Source lines are told apart
\* by their number and are indented in turn by one and by nothing.
SrcLine(i) == [kind |-> "src", no |-> i, ind |-> i % 2]
\* f"{indent}# ... (irrelevant code hidden)"
StitchPlaceholder(indent) == [kind |-> "hidden", no |-> 0, ind |-> indent]
\* f"{indent}# ... existing code ..."
SkeletonPlaceholder(indent) == [kind |-> "existing", no |-> 0, ind |-> indent]
\* "(No dependencies found or slicing failed)"
NoDependencies == [kind |-> "no_dependencies", no |-> 0, ind |-> 0]

Str(ls, nl) == [lines |-> ls, nl |-> nl]
\* str.splitlines(): the line break at the end is dropped.
SplitLines(s) == s.lines
\* "\n".join(...): no line break at the end.
Join(ls) == Str(ls, FALSE)
\* line[:len(line) - len(line.lstrip())]
Indent(line) == line.ind

Sources ==
    {Str([i \in 1..n |-> SrcLine(i)], nl) :
        n \in 0..MaxLines, nl \in BOOLEAN} \ {Str(<<>>, TRUE)}

Rng(s, e) == [start |-> s, end |-> e]
\* The ranges a structural query may report for a file of n lines: from the
\* line before the file to the line after it, empty (end = start) and
\* inverted (end = start - 1) ones too.
RangePool(n) == {r \in {Rng(s, e) : s \in 0..(n + 1), e \in 0..(n + 1)} :
                    r.end >= r.start - 1}
RangeLists(n, k) == UNION {[1..m -> RangePool(n)] : m \in 0..k}

\* The line sets a dependency query may give for a file of n lines: none, one
\* line (the line after the file too), all lines.
DepSets(n) == {{}} \cup {{i} : i \in 1..(n + 1)} \cup {1..n}

\* MarkSuppressible with the lines start and end marked too.
RECURSIVE MarkSuppressibleInclusive(_, _, _)
MarkSuppressibleInclusive(is_suppressible, ranges, k) ==
    IF k > Len(ranges) THEN is_suppressible
    ELSE LET start == ranges[k].start
             end == ranges[k].end
             marked == IF end > start
                       THEN [i \in DOMAIN is_suppressible |->
                               is_suppressible[i] \/ (start <= i /\ i <= end)]
                       ELSE is_suppressible
         IN  MarkSuppressibleInclusive(marked, ranges, k + 1)

\* _stitch_code, lines 55-65: is_suppressible, by line number.
RECURSIVE MarkSuppressible(_, _, _)
MarkSuppressible(is_suppressible, ranges, k) ==
    IF k > Len(ranges) THEN is_suppressible
    ELSE LET start == ranges[k].start
             end == ranges[k].end
             marked == IF end > start
                       THEN [i \in DOMAIN is_suppressible |->
                               is_suppressible[i] \/ (start + 1 <= i /\ i < end)]
                       ELSE is_suppressible
         IN  MarkSuppressible(marked, ranges, k + 1)

\* ShouldKeep with the 0-based index looked up in the 1-based set.
ShouldKeepZeroBased(line_num, slice) == (line_num - 1) \in slice

\* _stitch_code, lines 74-79: a suppressible line is kept if it is in the slice.
ShouldKeep(line_num, slice) == line_num \in slice

\* AfterKept without the reset: a gap, once open, stays open.
AfterKeptNoReset(last_was_gap) == last_was_gap

\* _stitch_code, line 83: a kept line ends the gap.
AfterKept(last_was_gap) == FALSE

\* _stitch_code, lines 67-88: the walk over the lines.
RECURSIVE StitchWalk(_, _, _, _, _, _)
StitchWalk(lines, is_suppressible, slice, line_num, stitched_lines, last_was_gap) ==
    IF line_num > Len(lines) THEN stitched_lines
    ELSE LET should_keep == IF is_suppressible[line_num]
                            THEN ShouldKeep(line_num, slice)
                            ELSE TRUE
         IN  IF should_keep
             THEN StitchWalk(lines, is_suppressible, slice, line_num + 1,
                             Append(stitched_lines, lines[line_num]),
                             AfterKept(last_was_gap))
             ELSE IF ~last_was_gap
             THEN StitchWalk(lines, is_suppressible, slice, line_num + 1,
                             Append(stitched_lines,
                                    StitchPlaceholder(Indent(lines[line_num]))),
                             TRUE)
             ELSE StitchWalk(lines, is_suppressible, slice, line_num + 1,
                             stitched_lines, TRUE)

\* StitchCode with is_suppressible starting as [True] * len(lines).
StitchCodeAllSuppressible(source_code, slice, ranges) ==
    LET lines == SplitLines(source_code)
        is_suppressible == MarkSuppressible([i \in 1..Len(lines) |-> TRUE], ranges, 1)
    IN  Join(StitchWalk(lines, is_suppressible, slice, 1, <<>>, FALSE))

\* ContextBuilder._stitch_code
StitchCode(source_code, slice, ranges) ==
    LET lines == SplitLines(source_code)
        is_suppressible == MarkSuppressible([i \in 1..Len(lines) |-> FALSE], ranges, 1)
    IN  Join(StitchWalk(lines, is_suppressible, slice, 1, <<>>, FALSE))

\* _create_skeleton, lines 83-90: lines_to_suppress (0-based, unbounded).
LinesToSuppress(ranges) ==
    UNION {IF ranges[k].end > ranges[k].start
           THEN {i - 1 : i \in (ranges[k].start + 1)..(ranges[k].end - 1)}
           ELSE {} : k \in 1..Len(ranges)}

\* _create_skeleton, lines 101-109: after line i (0-based) a placeholder
\* follows if some range starts at it.
PlaceholderAfter(lines, ranges, i) ==
    IF \E k \in 1..Len(ranges) :
          i = ranges[k].start - 1 /\ ranges[k].end > ranges[k].start
    THEN <<SkeletonPlaceholder(IF i + 1 < Len(lines)
                               THEN Indent(lines[i + 2]) ELSE 0)>>
    ELSE <<>>

\* _create_skeleton, lines 95-109: the walk over the lines, i 0-based.
RECURSIVE SkeletonWalk(_, _, _, _, _)
SkeletonWalk(lines, ranges, lines_to_suppress, i, result_lines) ==
    IF i >= Len(lines) THEN result_lines
    ELSE IF i \in lines_to_suppress
    THEN SkeletonWalk(lines, ranges, lines_to_suppress, i + 1, result_lines)
    ELSE SkeletonWalk(lines, ranges, lines_to_suppress, i + 1,
                      Append(result_lines, lines[i + 1])
                         \o PlaceholderAfter(lines, ranges, i))

\* PeripheralContextExtractor._create_skeleton
CreateSkeleton(source_code, ranges) ==
    IF ranges = <<>> THEN source_code
    ELSE LET lines == SplitLines(source_code)
         IN  Join(SkeletonWalk(lines, ranges, LinesToSuppress(ranges), 0, <<>>))

\* sorted(list(line_numbers))
RECURSIVE Sorted(_)
Sorted(S) ==
    IF S = {} THEN <<>>
    ELSE LET m == CHOOSE x \in S : \A y \in S : x <= y
         IN  <<m>> \o Sorted(S \ {m})

\* FocusedSlicer._construct_code_block
ConstructCodeBlock(source_lines, line_numbers) ==
    IF line_numbers = {} THEN Str(<<NoDependencies>>, FALSE)
    ELSE LET sorted_lines == Sorted(line_numbers)
             in_bounds == SelectSeq(sorted_lines,
                                    LAMBDA line_no : 0 <= line_no - 1
                                                     /\ line_no - 1 <= Len(source_lines) - 1)
         IN  Join([k \in 1..Len(in_bounds) |-> source_lines[in_bounds[k]]])

\* The line set build_mixed_context stitches with (lines 39-40).
MixedSliceLines(ddg, cdg, buggy) == (ddg \cup cdg) \cup {buggy}

StIdle ==
    /\ st_op = "none"
    /\ st_done = FALSE
    /\ source = Str(<<>>, FALSE)
    /\ slice_lines = {}
    /\ ranges_to_hide = <<>>
    /\ ddg_lines = {}
    /\ cdg_lines = {}
    /\ buggy_line_no = 0
    /\ rendering = <<>>
    /\ used_lines = <<>>

\* The inputs of one call: a source, and what the call reads.
StInit ==
    /\ st_op \in {"stitch", "skeleton", "slices", "mixed"}
    /\ st_done = FALSE
    /\ source \in Sources
    /\ slice_lines \in IF st_op = "stitch"
                       THEN SUBSET (1..Len(source.lines)) ELSE {{}}
    /\ ranges_to_hide \in
          IF st_op \in {"stitch", "skeleton"}
          THEN RangeLists(Len(source.lines), MaxRanges)
          ELSE IF st_op = "mixed"
          THEN RangeLists(Len(source.lines), MaxRanges - 1)
          ELSE {<<>>}
    /\ ddg_lines \in IF st_op \in {"slices", "mixed"}
                     THEN DepSets(Len(source.lines)) ELSE {{}}
    /\ cdg_lines \in IF st_op \in {"slices", "mixed"}
                     THEN DepSets(Len(source.lines)) ELSE {{}}
    /\ buggy_line_no \in IF st_op \in {"slices", "mixed"}
                         THEN 1..Len(source.lines) ELSE {0}
    /\ rendering = <<>>
    /\ used_lines = <<>>

StFrame == UNCHANGED <<wfVars, tkVars, rtVars, ccVars, psVars, st_op, source, slice_lines, ranges_to_hide,
                       ddg_lines, cdg_lines, buggy_line_no>>

\* ContextBuilder._stitch_code(source_code, slice_lines, ranges_to_hide)
DoStitchCode ==
    /\ st_op = "stitch" /\ ~st_done
    /\ rendering' = <<StitchCode(source, slice_lines, ranges_to_hide)>>
    /\ used_lines' = <<slice_lines>>
    /\ st_done' = TRUE
    /\ StFrame

\* PeripheralContextExtractor._create_skeleton(source_code, ranges_to_hide)
DoCreateSkeleton ==
    /\ st_op = "skeleton" /\ ~st_done
    /\ rendering' = <<CreateSkeleton(source, ranges_to_hide)>>
    /\ used_lines' = <<{}>>
    /\ st_done' = TRUE
    /\ StFrame

\* FocusedSlicer.generate_slices, lines 39-58, the two queries answered
\* with ddg_lines and cdg_lines (the empty set when a query failed).
DoGenerateSlices ==
    /\ st_op = "slices" /\ ~st_done
    /\ rendering' = <<ConstructCodeBlock(SplitLines(source), ddg_lines),
                      ConstructCodeBlock(SplitLines(source), cdg_lines)>>
    /\ used_lines' = <<ddg_lines, cdg_lines>>
    /\ st_done' = TRUE
    /\ StFrame

\* ContextBuilder.build_mixed_context, lines 32-48.
DoBuildMixedContext ==
    /\ st_op = "mixed" /\ ~st_done
    /\ rendering' = <<StitchCode(source,
                                 MixedSliceLines(ddg_lines, cdg_lines, buggy_line_no),
                                 ranges_to_hide)>>
    /\ used_lines' = <<MixedSliceLines(ddg_lines, cdg_lines, buggy_line_no)>>
    /\ st_done' = TRUE
    /\ StFrame

StNext ==
    \/ DoStitchCode
    \/ DoCreateSkeleton
    \/ DoGenerateSlices
    \/ DoBuildMixedContext

\* The session that has not been started.
WfIdle ==
    /\ pc = "idle"
    /\ file = Original
    /\ bak = NoBackup
    /\ max_rounds = 0
    /\ round_num = 0
    /\ last_test_result = NoResult
    /\ patch = NoPatch
    /\ container = "none"
    /\ outcome = "none"
    /\ context_empty = TRUE
    /\ context = DualLayerContext
    /\ analysis_failed = FALSE
    /\ feedback_history = <<>>
    /\ recorded = <<>>
    /\ pre = Original
    /\ log = <<>>
    /\ sessions = 0



\* ---------------------------------------------------------- token budget
\* A text is the sequence of its tokens; a token is its kind and its place in
\* the text it comes from.  The tokenizer (tiktoken) is not part of the
\* sources: encode gives the tokens of a text, decode the text of tokens.
Text(kind, n) == [i \in 1..n |-> <<kind, i>>]
Encode(text) == text
Decode(tokens) == tokens

\* TokenManager.OUTPUT_RESERVE
OUTPUT_RESERVE == 1024

\* "\n" and "\n\n", one token each.
NL == <<<<"nl", 1>>>>
NLNL == <<<<"nlnl", 1>>>>
\* "--------------------------------------------------"
Dashes == <<<<"dashes", 1>>>>
\* "\n... (Context truncated due to length) ..."
TruncationNotice == Text("notice", NoticeTokens)
\* "(Context removed due to extreme length)"
ContextRemoved == Text("removed", 2)

\* sep.join(parts)
RECURSIVE JoinWith(_, _)
JoinWith(sep, parts) ==
    IF parts = <<>> THEN <<>>
    ELSE IF Len(parts) = 1 THEN parts[1]
    ELSE parts[1] \o sep \o JoinWith(sep, Tail(parts))

\* TokenManager.count_tokens
CountTokens(text) == IF text = <<>> THEN 0 ELSE Len(Encode(text))

\* TokenManager.check_fit
CheckFit(prompt, limit_length) == ~(CountTokens(prompt) > limit_length - OUTPUT_RESERVE)

Max(a, b) == IF a >= b THEN a ELSE b

\* TokenManager._truncate_text
TruncateText(text, max_tokens, from_end) ==
    IF max_tokens <= 0 THEN <<>>
    ELSE LET tokens == Encode(text)
         IN  IF Len(tokens) <= max_tokens THEN text
             ELSE IF from_end
             THEN Decode(SubSeq(tokens, Len(tokens) - max_tokens + 1, Len(tokens)))
             ELSE Decode(SubSeq(tokens, 1, max_tokens))

\* optimize_prompt, lines 84-92: the context is cut to what is available and
\* the notice is appended to it.
FitContext(dynamic_context, available_for_context) ==
    IF CountTokens(dynamic_context) > available_for_context
    THEN TruncateText(dynamic_context, available_for_context, FALSE)
            \o TruncationNotice
    ELSE dynamic_context

\* TokenManager.optimize_prompt.  The feedback it cuts is its own local: the
\* result is the context alone (or, in the last resort, the static text).
OptimizePrompt(limit_length, static_parts, dynamic_context, feedback_part) ==
    LET static_text == JoinWith(NL, static_parts)
        feedback_tokens == CountTokens(feedback_part)
        static_tokens == CountTokens(static_text)
        safe_limit == limit_length - OUTPUT_RESERVE
        available_for_context == safe_limit - static_tokens - feedback_tokens
    IN  IF available_for_context < 0
        THEN LET feedback_budget == Max(0, safe_limit - static_tokens)
                 cut_feedback == TruncateText(feedback_part, feedback_budget, TRUE)
                 available_again == safe_limit - static_tokens - CountTokens(cut_feedback)
             IN  IF available_again < 0 THEN static_text
                 ELSE FitContext(dynamic_context, available_again)
        ELSE FitContext(dynamic_context, available_for_context)

\* construct_prompt, lines 53-73: the key of the context template.
ContextModeSticky(rn) ==
    IF rn = 1 THEN "none"
    ELSE IF rn = 2 THEN "slice"
    ELSE "periphery"

ContextMode(rn) ==
    IF rn = 1 THEN "none"
    ELSE IF rn = 2 THEN "slice"
    ELSE IF rn = 3 THEN "periphery"
    ELSE "none"

\* construct_prompt, lines 79-89: the key of the feedback template, for a
\* test_result that is None, failed or passed.
TemplateOfResult(test_result) ==
    IF test_result # "None" /\ test_result # "passed" THEN "failure" ELSE "initial"

\* RepairSession.get_context_for_round: the dict, as its mode and its keys.
GetContextForRound(rn) ==
    IF rn = 1 THEN [module_3_context |-> "none", keys |-> {}]
    ELSE IF rn = 2
    THEN [module_3_context |-> "slice",
          keys |-> {"data_dependency_slice", "control_dependency_slice"}]
    ELSE IF rn = 3
    THEN [module_3_context |-> "periphery", keys |-> {"class_skeleton"}]
    ELSE [module_3_context |-> "none", keys |-> {}]

\* construct_prompt, lines 96-102
StaticParts(leading, buggy, trailing) == <<leading, Dashes, buggy, Dashes, trailing>>

Parts(leading, buggy, ctx, feedback, trailing) ==
    [leading |-> leading, buggy |-> buggy, context |-> ctx,
     feedback |-> feedback, trailing |-> trailing]

\* The prompt's text: its parts with "\n\n" between them.
PromptText(p) ==
    JoinWith(NLNL, <<p.leading, p.buggy, p.context, p.feedback, p.trailing>>)

\* PromptComposer.construct_prompt, lines 96-128, after the templates are
\* rendered.
ConstructPrompt(limit_length, leading, buggy, trailing, ctx, feedback) ==
    LET optimized == OptimizePrompt(limit_length, StaticParts(leading, buggy, trailing),
                                    ctx, feedback)
        first == Parts(leading, buggy, optimized, feedback, trailing)
    IN  IF ~CheckFit(PromptText(first), limit_length)
        THEN Parts(leading, buggy, ContextRemoved, feedback, trailing)
        ELSE first

NoPrompt == Parts(<<>>, <<>>, <<>>, <<>>, <<>>)

TkIdle ==
    /\ tk_op = "none"
    /\ tk_done = FALSE
    /\ max_context_length = OUTPUT_RESERVE
    /\ leading_text = <<>>
    /\ buggy_code_text = <<>>
    /\ trailing_text = <<>>
    /\ context_text = <<>>
    /\ feedback_text = <<>>
    /\ optimized_context = <<>>
    /\ full_prompt = NoPrompt
    /\ tk_round_num = 1
    /\ tk_test_result = "None"
    /\ tk_session_empty = TRUE
    /\ context_mode = "unset"
    /\ feedback_mode = "unset"

\* The inputs of one call.  The context windows of MODEL_LIMITS are scaled
\* down to the output reserve plus a few tokens.
TkInit ==
    /\ tk_op \in {"optimize", "construct", "get_context"}
    /\ tk_done = FALSE
    /\ IF tk_op = "get_context"
       THEN /\ max_context_length = OUTPUT_RESERVE
            /\ leading_text = <<>>
            /\ context_text = <<>>
            /\ feedback_text = <<>>
       ELSE /\ max_context_length \in {OUTPUT_RESERVE + k : k \in 0..MaxSafeLimit}
            /\ leading_text \in {Text("leading", n) : n \in 0..MaxLeading}
            /\ context_text \in {Text("context", n) : n \in 0..MaxContext}
            /\ feedback_text \in {Text("feedback", n) : n \in 0..MaxFeedback}
    /\ buggy_code_text = Text("buggy", 1)
    /\ trailing_text = Text("trailing", 1)
    /\ optimized_context = <<>>
    /\ full_prompt = NoPrompt
    /\ IF tk_op = "optimize"
       THEN /\ tk_round_num = 1
            /\ tk_test_result = "None"
            /\ tk_session_empty = TRUE
       ELSE /\ tk_round_num \in 1..MaxRoundNum
            /\ tk_test_result \in {"None", "failed", "passed"}
            /\ tk_session_empty \in BOOLEAN
    /\ context_mode = "unset"
    /\ feedback_mode = "unset"

TkFrame == UNCHANGED <<wfVars, stVars, rtVars, ccVars, psVars, tk_op, max_context_length, leading_text,
                       buggy_code_text, trailing_text, context_text, feedback_text,
                       tk_round_num, tk_test_result, tk_session_empty>>

\* TokenManager.optimize_prompt(static_parts, dynamic_context, feedback_part)
DoOptimizePrompt ==
    /\ tk_op = "optimize" /\ ~tk_done
    /\ optimized_context' =
          OptimizePrompt(max_context_length,
                         StaticParts(leading_text, buggy_code_text, trailing_text),
                         context_text, feedback_text)
    /\ tk_done' = TRUE
    /\ UNCHANGED <<full_prompt, context_mode, feedback_mode>>
    /\ TkFrame

\* PromptComposer.construct_prompt
DoConstructPrompt ==
    /\ tk_op = "construct" /\ ~tk_done
    /\ context_mode' = ContextMode(tk_round_num)
    /\ feedback_mode' = TemplateOfResult(tk_test_result)
    /\ optimized_context' =
          OptimizePrompt(max_context_length,
                         StaticParts(leading_text, buggy_code_text, trailing_text),
                         context_text, feedback_text)
    /\ full_prompt' = ConstructPrompt(max_context_length, leading_text, buggy_code_text,
                                      trailing_text, context_text, feedback_text)
    /\ tk_done' = TRUE
    /\ TkFrame

\* RepairSession.get_context_for_round(round_num)
DoGetContextForRound ==
    /\ tk_op = "get_context" /\ ~tk_done
    /\ context_mode' = GetContextForRound(tk_round_num).module_3_context
    /\ tk_done' = TRUE
    /\ UNCHANGED <<optimized_context, full_prompt, feedback_mode>>
    /\ TkFrame

TkNext ==
    \/ DoOptimizePrompt
    \/ DoConstructPrompt
    \/ DoGetContextForRound

\* -------------------------------------------- dependency-query output
\* The entries of a printed JSON list: an integer, null, a string that is
\* not a number, a number with a fraction (v + 0.5).
IntEntry(v) == [t |-> "int", v |-> v]
NullEntry == [t |-> "null", v |-> 0]
StrEntry == [t |-> "str", v |-> 0]
FloatEntry(v) == [t |-> "float", v |-> v]
Entries == {IntEntry(1), NullEntry, StrEntry, FloatEntry(2)}

\* The lines of an output, stripped: a line that is not bracketed, a
\* bracketed line json.loads rejects, a bracketed line that is a JSON list.
NoiseLine == [kind |-> "noise", entries |-> <<>>]
MalformedLine == [kind |-> "malformed", entries |-> <<>>]
ListLine(es) == [kind |-> "list", entries |-> es]
OutLines ==
    {NoiseLine, MalformedLine} \cup
    {ListLine(es) : es \in UNION {[1..n -> Entries] : n \in 0..MaxEntries}}

\* execute_query_script: it raises, or returns its output.
QueryRaises == [raises |-> TRUE, lines |-> <<>>]
QueryOutput(ls) == [raises |-> FALSE, lines |-> ls]
Queries ==
    {QueryRaises} \cup
    {QueryOutput(ls) : ls \in UNION {[1..n -> OutLines] : n \in 0..MaxOutLines}}

Returned(set) == [raised |-> FALSE, set |-> set]
Raised == [raised |-> TRUE, set |-> {}]

\* int(x): ValueError for a string that is not a number, truncation for a
\* number with a fraction.
IntRaises(x) == x.t = "str"
PyInt(x) == x.v

\* Line 94: {int(x) for x in data if x is not None}
IntSet(data) ==
    IF \E i \in 1..Len(data) : data[i].t # "null" /\ IntRaises(data[i])
    THEN Raised
    ELSE Returned({PyInt(data[i]) : i \in {j \in 1..Len(data) : data[j].t # "null"}})

\* Lines 87-100: the lines from the last to the first.
RECURSIVE ScanReversed(_, _)
ScanReversed(lines, i) ==
    IF i = 0 THEN Returned({})
    ELSE IF lines[i].kind = "list" THEN IntSet(lines[i].entries)
    ELSE ScanReversed(lines, i - 1)

\* FocusedSlicer._parse_joern_list_output
ParseJoernListOutput(raw_output) ==
    IF raw_output = <<>> THEN Returned({})
    ELSE ScanReversed(raw_output, Len(raw_output))

\* _run_slicing_strategy without its except clause.
RunSlicingStrategyUncaught(query) ==
    IF query.raises THEN Raised ELSE ParseJoernListOutput(query.lines)

\* FocusedSlicer._run_slicing_strategy
RunSlicingStrategy(query) ==
    IF query.raises THEN Returned({})
    ELSE LET parsed_lines == ParseJoernListOutput(query.lines)
         IN  IF parsed_lines.raised THEN Returned({}) ELSE parsed_lines

\* ----------------------------------------------- structural-query output
\* The items of the printed JSON list of ranges: an object with start and
\* end, an object without them (or with 0 or null for one of them), and an
\* item that is no object (a number, a string, null).
RangeItem(s, e) == [t |-> "range", start |-> s, end |-> e]
KeylessItem == [t |-> "keyless", start |-> 0, end |-> 0]
NotObjectItem == [t |-> "not_object", start |-> 0, end |-> 0]
RangeItems == {RangeItem(1, 4), KeylessItem, NotObjectItem}

RangeOutLines ==
    {NoiseLine, MalformedLine} \cup
    {ListLine(es) : es \in UNION {[1..n -> RangeItems] : n \in 0..MaxItems}}

RangeQueries ==
    {QueryRaises} \cup
    {QueryOutput(ls) : ls \in UNION {[1..n -> RangeOutLines] : n \in 0..MaxRangeLines}}

ReturnedRanges(rs) == [raised |-> FALSE, ranges |-> rs]
RaisedRanges == [raised |-> TRUE, ranges |-> <<>>]

\* _parse_ranges, lines 60-65: item.get raises AttributeError on an item
\* that is no object; an item without start or end is passed over.
RECURSIVE RangesOf(_, _, _)
RangesOf(data, k, ranges) ==
    IF k > Len(data) THEN ReturnedRanges(ranges)
    ELSE IF data[k].t = "not_object" THEN RaisedRanges
    ELSE IF data[k].t = "keyless" THEN RangesOf(data, k + 1, ranges)
    ELSE RangesOf(data, k + 1, Append(ranges, Rng(data[k].start, data[k].end)))

\* _parse_ranges, lines 54-71: the lines from the last to the first.
RECURSIVE ScanRangesReversed(_, _)
ScanRangesReversed(lines, i) ==
    IF i = 0 THEN ReturnedRanges(<<>>)
    ELSE IF lines[i].kind = "list" THEN RangesOf(lines[i].entries, 1, <<>>)
    ELSE ScanRangesReversed(lines, i - 1)

\* PeripheralContextExtractor._parse_ranges
ParseRanges(raw_output) ==
    IF raw_output = <<>> THEN ReturnedRanges(<<>>)
    ELSE ScanRangesReversed(raw_output, Len(raw_output))

ReturnedText(text) == [raised |-> FALSE, text |-> text]
RaisedText == [raised |-> TRUE, text |-> Str(<<>>, FALSE)]

\* PeripheralContextExtractor.generate_context with a graph path: the query
\* and _parse_ranges run inside a try whose handler returns the source.
GenerateContext(query, source_code) ==
    IF query.raises THEN ReturnedText(source_code)
    ELSE LET ranges_to_hide_ == ParseRanges(query.lines)
         IN  IF ranges_to_hide_.raised THEN ReturnedText(source_code)
             ELSE ReturnedText(CreateSkeleton(source_code, ranges_to_hide_.ranges))

\* ContextBuilder.build_mixed_context, lines 42-48: the query and
\* _parse_ranges run outside any try.
BuildMixedContext(query, source_code, slice_lines_set) ==
    IF query.raises THEN RaisedText
    ELSE LET ranges_to_hide_ == ParseRanges(query.lines)
         IN  IF ranges_to_hide_.raised THEN RaisedText
             ELSE ReturnedText(StitchCode(source_code, slice_lines_set,
                                          ranges_to_hide_.ranges))

\* The artifact of the calls: a source of four lines whose buggy line is
\* line 2, the slicing queries having found nothing more.
RgSource == Str([i \in 1..4 |-> SrcLine(i)], FALSE)
RgSliceLines == {2}

RgIdle ==
    /\ rg_op = "none"
    /\ rg_query = QueryOutput(<<>>)
    /\ rg_done = FALSE
    /\ rg_ranges = ReturnedRanges(<<>>)
    /\ rg_result = ReturnedText(Str(<<>>, FALSE))

RgInit ==
    /\ rg_op \in {"generate_context", "build_mixed_context"}
    /\ rg_query \in RangeQueries
    /\ rg_done = FALSE
    /\ rg_ranges = ReturnedRanges(<<>>)
    /\ rg_result = ReturnedText(Str(<<>>, FALSE))

RgFrame == UNCHANGED <<wfVars, stVars, tkVars, rtVars, ccVars, ps_query, ps_done,
                       ps_parsed, ps_result, rg_op, rg_query>>

\* generate_context(cpg_path, artifact)
DoGenerateContext ==
    /\ rg_op = "generate_context" /\ ~rg_done
    /\ rg_ranges' = IF rg_query.raises THEN rg_ranges ELSE ParseRanges(rg_query.lines)
    /\ rg_result' = GenerateContext(rg_query, RgSource)
    /\ rg_done' = TRUE
    /\ RgFrame

\* build_mixed_context(cpg_path, artifact), from its structural query on
DoBuildMixedContextQuery ==
    /\ rg_op = "build_mixed_context" /\ ~rg_done
    /\ rg_ranges' = IF rg_query.raises THEN rg_ranges ELSE ParseRanges(rg_query.lines)
    /\ rg_result' = BuildMixedContext(rg_query, RgSource, RgSliceLines)
    /\ rg_done' = TRUE
    /\ RgFrame

RgNext ==
    \/ DoGenerateContext
    \/ DoBuildMixedContextQuery

\* No slicing query has been run.
SlicerIdle ==
    /\ ps_query = QueryOutput(<<>>)
    /\ ps_done = FALSE
    /\ ps_parsed = Returned({})
    /\ ps_result = Returned({})

PsIdle == SlicerIdle /\ RgIdle

PsInit ==
    /\ ps_query \in Queries
    /\ ps_done = FALSE
    /\ ps_parsed = Returned({})
    /\ ps_result = Returned({})
    /\ RgIdle

PsFrame == UNCHANGED <<wfVars, stVars, tkVars, rtVars, ccVars, ps_query, rgVars>>

\* _run_slicing_strategy(cpg_path, script_path, params, slice_type), with
\* its call of _parse_joern_list_output when the query returned.
DoRunSlicingStrategy ==
    /\ ~ps_done
    /\ ps_parsed' = IF ps_query.raises THEN ps_parsed
                    ELSE ParseJoernListOutput(ps_query.lines)
    /\ ps_result' = RunSlicingStrategy(ps_query)
    /\ ps_done' = TRUE
    /\ PsFrame

PsNext == DoRunSlicingStrategy

\* ------------------------------------- two sessions on one target file
\* Two calls of run_repair for artifacts with the same file_path, each in a
\* process or thread of its own.  Nothing in run_repair or FileManager takes
\* a lock, so the steps of the two calls interleave freely.  A step is the
\* code around one operation on the file; the rounds' other calls (prompt,
\* completion, extraction) do not touch the file.
Sessions == {"s1", "s2"}
\* The candidate a session writes.
Candidate(s) == IF s = "s1" THEN "p1" ELSE "p2"

CcIdle ==
    /\ cc_pc = [s \in Sessions |-> "off"]
    /\ cc_round = [s \in Sessions |-> 0]
    /\ cc_file = Original
    /\ cc_bak = NoBackup

CcInit ==
    /\ cc_pc = [s \in Sessions |-> "start"]
    /\ cc_round = [s \in Sessions |-> 0]
    /\ cc_file = Original
    /\ cc_bak = NoBackup

CcFrame == UNCHANGED <<wfVars, stVars, tkVars, rtVars, psVars>>

\* run_repair line 54, backup_file lines 35-41: the tests of existence.
CcBackupCheck(s) ==
    /\ cc_pc[s] = "start"
    /\ cc_pc' = [cc_pc EXCEPT ![s] = IF cc_bak # NoBackup THEN "loop" ELSE "copy"]
    /\ UNCHANGED <<cc_round, cc_file, cc_bak>>
    /\ CcFrame

\* backup_file line 44: shutil.copy2(src, dst).
CcBackupCopy(s) ==
    /\ cc_pc[s] = "copy"
    /\ cc_bak' = cc_file
    /\ cc_pc' = [cc_pc EXCEPT ![s] = "loop"]
    /\ UNCHANGED <<cc_round, cc_file>>
    /\ CcFrame

\* A round that ends before write_patch (lines 102-110): continue.
CcRoundWithoutWrite(s) ==
    /\ cc_pc[s] = "loop"
    /\ cc_round[s] < MaxRounds
    /\ cc_round' = [cc_round EXCEPT ![s] = NextRound(cc_round[s])]
    /\ UNCHANGED <<cc_pc, cc_file, cc_bak>>
    /\ CcFrame

\* Lines 92-126: the round reaches write_patch (backup, then overwrite).
CcWritePatch(s) ==
    /\ cc_pc[s] = "loop"
    /\ cc_round[s] < MaxRounds
    /\ cc_round' = [cc_round EXCEPT ![s] = NextRound(cc_round[s])]
    /\ cc_bak' = BackupFile(cc_file, cc_bak)
    /\ cc_file' = Candidate(s)
    /\ cc_pc' = [cc_pc EXCEPT ![s] = "validate"]
    /\ CcFrame

\* Lines 134-150: run_tests ends, restore_file; return True or go on.
CcValidated(s) ==
    /\ cc_pc[s] = "validate"
    /\ cc_file' = RestoreFile(cc_file, cc_bak)
    /\ \E passed \in BOOLEAN :
          cc_pc' = [cc_pc EXCEPT ![s] = IF passed THEN "done" ELSE "loop"]
    /\ UNCHANGED <<cc_round, cc_bak>>
    /\ CcFrame

\* Lines 152-154: the rounds are used up; restore_file, return False.
CcExhausted(s) ==
    /\ cc_pc[s] = "loop"
    /\ cc_round[s] >= MaxRounds
    /\ cc_file' = RestoreFile(cc_file, cc_bak)
    /\ cc_pc' = [cc_pc EXCEPT ![s] = "done"]
    /\ UNCHANGED <<cc_round, cc_bak>>
    /\ CcFrame

CcNext ==
    \E s \in Sessions :
       \/ CcBackupCheck(s)
       \/ CcBackupCopy(s)
       \/ CcRoundWithoutWrite(s)
       \/ CcWritePatch(s)
       \/ CcValidated(s)
       \/ CcExhausted(s)

\* ------------------------------------------------------ retry wrapper
\* What one call of the wrapped function does: it returns, or raises
\* requests.exceptions.HTTPError with the status of the response, another
\* RequestException (a network error), LLMError, or an exception of another
\* class; att is the attempt that made it.
Ok(att) == [kind |-> "ok", status |-> 200, att |-> att]
HTTPError(status, att) == [kind |-> "http", status |-> status, att |-> att]
NetworkError(att) == [kind |-> "network", status |-> 0, att |-> att]
LLMError(att) == [kind |-> "llm", status |-> 0, att |-> att]
OtherError(att) == [kind |-> "other", status |-> 0, att |-> att]
\* "raise last_exception" with last_exception None.
RaiseNone == [kind |-> "TypeError", status |-> 0, att |-> 0]
None == [kind |-> "None", status |-> 0, att |-> 0]

\* The statuses raise_for_status raises for, at the edges of the classes.
Statuses == {400, 404, 429, 499, 500, 599}

CallResults(att) ==
    {Ok(att), NetworkError(att), LLMError(att), OtherError(att)}
        \cup {HTTPError(st, att) : st \in Statuses}

\* Line 26: the exception classes the wrapper catches.
Caught(e) == e.kind \in {"http", "network", "llm"}

\* Lines 28-30 with the class of client errors starting after 400.
NonRetriableAbove400(e) ==
    e.kind = "http" /\ 400 < e.status /\ e.status < 500 /\ e.status # 429

\* Lines 28-30: an HTTP error of the client's side other than 429.
NonRetriable(e) ==
    e.kind = "http" /\ 400 <= e.status /\ e.status < 500 /\ e.status # 429

\* delay, line 20
BaseDelay == 1

RECURSIVE Pow(_, _)
Pow(b, n) == IF n = 0 THEN 1 ELSE b * Pow(b, n - 1)

\* Line 36 with the count of the attempts for the exponent.
SleepTimeFromCount(delay, factor, count) == delay * Pow(factor, count)

\* Line 36: delay * (backoff_factor ** (retry_count - 1))
SleepTime(delay, factor, count) == delay * Pow(factor, count - 1)

CallEv(res) == [ev |-> "call", res |-> res, time |-> 0]
SleepEv(t) == [ev |-> "sleep", res |-> None, time |-> t]

RtIdle ==
    /\ rt_pc = "off"
    /\ max_retries = 0
    /\ backoff_factor = 1
    /\ retry_count = 0
    /\ last_exception = None
    /\ rt_result = None
    /\ trace = <<>>

\* wrapper, lines 19-21
RtInit ==
    /\ rt_pc = "loop"
    /\ max_retries \in 0..MaxRetries
    /\ backoff_factor \in 1..MaxFactor
    /\ retry_count = 0
    /\ last_exception = None
    /\ rt_result = None
    /\ trace = <<>>

RtFrame == UNCHANGED <<wfVars, stVars, tkVars, ccVars, psVars, max_retries, backoff_factor>>

\* Line 25: the call returns and the wrapper returns its result.
AttemptReturns ==
    /\ rt_pc = "loop" /\ retry_count < max_retries
    /\ trace' = Append(trace, CallEv(Ok(retry_count + 1)))
    /\ rt_result' = Ok(retry_count + 1)
    /\ rt_pc' = "returned"
    /\ UNCHANGED <<retry_count, last_exception>>
    /\ RtFrame

\* Lines 25-32: the call raises what the wrapper does not catch, or an HTTP
\* error it does not retry; the exception leaves the wrapper.
AttemptRaises ==
    /\ rt_pc = "loop" /\ retry_count < max_retries
    /\ \E e \in CallResults(retry_count + 1) :
          /\ e.kind # "ok"
          /\ ~Caught(e) \/ NonRetriable(e)
          /\ trace' = Append(trace, CallEv(e))
          /\ rt_result' = e
    /\ rt_pc' = "raised"
    /\ UNCHANGED <<retry_count, last_exception>>
    /\ RtFrame

\* Lines 25-39: the call raises a retryable error; count, sleep, loop.
AttemptRetried ==
    /\ rt_pc = "loop" /\ retry_count < max_retries
    /\ \E e \in CallResults(retry_count + 1) :
          /\ Caught(e) /\ ~NonRetriable(e)
          /\ last_exception' = e
          /\ retry_count' = retry_count + 1
          /\ trace' = Append(Append(trace, CallEv(e)),
                             SleepEv(SleepTime(BaseDelay, backoff_factor,
                                               retry_count + 1)))
    /\ UNCHANGED <<rt_pc, rt_result>>
    /\ RtFrame

\* Lines 41-42: the attempts are used up; raise last_exception.
MaxRetriesReached ==
    /\ rt_pc = "loop" /\ ~(retry_count < max_retries)
    /\ rt_result' = IF last_exception = None THEN RaiseNone ELSE last_exception
    /\ rt_pc' = "raised"
    /\ UNCHANGED <<retry_count, last_exception, trace>>
    /\ RtFrame

RtNext ==
    \/ AttemptReturns
    \/ AttemptRaises
    \/ AttemptRetried
    \/ MaxRetriesReached

InitRetry == WfIdle /\ StIdle /\ TkIdle /\ RtInit /\ CcIdle /\ PsIdle

SpecRetry == InitRetry /\ [][RtNext]_vars

InitTwoSessions == WfIdle /\ StIdle /\ TkIdle /\ RtIdle /\ CcInit /\ PsIdle

SpecTwoSessions == InitTwoSessions /\ [][CcNext]_vars

InitRanges == WfIdle /\ StIdle /\ TkIdle /\ RtIdle /\ CcIdle /\ SlicerIdle /\ RgInit

SpecRanges == InitRanges /\ [][RgNext]_vars

InitParse == WfIdle /\ StIdle /\ TkIdle /\ RtIdle /\ CcIdle /\ PsInit

SpecParse == InitParse /\ [][PsNext]_vars

InitTokens == WfIdle /\ StIdle /\ TkInit /\ RtIdle /\ CcIdle /\ PsIdle

SpecTokens == InitTokens /\ [][TkNext]_vars

InitStitch == WfIdle /\ StInit /\ TkIdle /\ RtIdle /\ CcIdle /\ PsIdle

SpecStitch == InitStitch /\ [][StNext]_vars

Init == WfInit /\ StIdle /\ TkIdle /\ RtIdle /\ CcIdle /\ PsIdle

Spec == Init /\ [][Next]_vars

\* ------------------------------------------------------ claims, workflow

\* C1: once run_repair has ended, by a return or by an exception, the target
\* file holds the content it had when run_repair was called.
C1_FileRestoredOnEveryExit == pc = "done" => file = pre

\* The rounds that were composed, in order.
ComposedRounds == SelectSeq(log, LAMBDA e : e.ev = "compose")

\* How far the session has come: it grows with every step of a round.
PcRank == [p \in {"generate", "extract", "write", "validate", "loop"} |->
             CASE p = "generate" -> 0
               [] p = "extract" -> 1
               [] p = "write" -> 2
               [] p = "validate" -> 3
               [] p = "loop" -> 4]

Measure ==
    IF pc \in DOMAIN PcRank THEN 5 * round_num + PcRank[pc]
    ELSE IF pc = "done" THEN 5 * (max_rounds + 1)
    ELSE 0

C2_RoundsInv ==
    /\ Len(ComposedRounds) <= max_rounds
    /\ \A i \in 1..Len(ComposedRounds) : ComposedRounds[i].round = i
    /\ Running => (ENABLED RoundStep /\ Measure < 5 * (max_rounds + 1))
    /\ (pc = "done" /\ outcome = "False") => Len(ComposedRounds) = max_rounds
    /\ \A i \in 1..Len(log) :
          (log[i].ev = "generate" /\ log[i].mode = "failed") =>
             \A j \in (i+1)..Len(log) : log[j].round > log[i].round

\* C2: a session composes the rounds 1, 2, ... in order, each at most once and
\* at most max_rounds of them; while it runs a step is always possible and
\* every step brings it nearer its end, so it ends, and it reports no fix only
\* after max_rounds rounds; after a failed completion only later rounds follow.
C2_RoundsBoundedAndTerminate ==
    /\ []C2_RoundsInv
    /\ [][RoundStep => Measure' > Measure]_vars

C2_Witness ==
    /\ pc = "done"
    /\ outcome = "False"
    /\ max_rounds >= 2
    /\ \A i \in 1..Len(log) : log[i].ev = "generate" => log[i].mode = "failed"

PassedAt(i) == log[i].ev = "validate" /\ log[i].res.passed

\* C3: run_repair returns True exactly when a round's validation passed, that
\* round is the last thing the session did, and it returns False only when no
\* validation passed.
C3_TrueIffValidationPassed ==
    /\ (pc = "done" /\ outcome = "True") =>
          (Len(log) > 0 /\ PassedAt(Len(log)))
    /\ (pc = "done" /\ outcome = "False") =>
          \A i \in 1..Len(log) : ~PassedAt(i)
    /\ \A i \in 1..Len(log) : PassedAt(i) => (i = Len(log) /\ pc = "done")
    /\ (pc = "done" /\ outcome \in {"True", "False"} /\
        \E i \in 1..Len(log) : PassedAt(i)) => outcome = "True"

C3_Witness ==
    /\ pc = "done"
    /\ outcome = "True"
    /\ round_num = 2
    /\ max_rounds = 3
    /\ \E i \in 1..Len(log) : log[i].ev = "validate" /\ ~log[i].res.passed

\* The events that hand a TestResult to last_test_result.
CarriesResult(e) == e.res # NoResult /\ e.ev \in {"validate", "extract", "write"}

RECURSIVE LatestResult(_)
LatestResult(i) ==
    IF i = 0 THEN NoResult
    ELSE IF CarriesResult(log[i]) THEN log[i].res
    ELSE LatestResult(i - 1)

\* C4: round 1 is composed with no result and the initial feedback mode; a
\* later round is composed with the failing result of the most recent earlier
\* round that produced one, and in the failure mode exactly when there is one.
C4_FeedbackIsLatestFailure ==
    \A i \in 1..Len(log) :
       log[i].ev = "compose" =>
          /\ log[i].res = LatestResult(i - 1)
          /\ (log[i].round = 1 => (log[i].res = NoResult /\ log[i].mode = "initial"))
          /\ (log[i].res # NoResult => ~log[i].res.passed)
          /\ (log[i].mode = "failure") <=> (LatestResult(i - 1) # NoResult)

\* Round 3 is composed with round 1's result: round 2's completion failed.
C4_Witness ==
    \E i \in 1..Len(log) :
       /\ log[i].ev = "compose"
       /\ log[i].round = 3
       /\ log[i].res.round = 1
       /\ log[i].mode = "failure"

\* ----------------------------------------------------- claims, stitching

\* C5: the line set every dependency-slice rendering is built from holds the
\* buggy line, in generate_slices and in build_mixed_context, whatever the
\* two queries gave.
C5_BuggyLineInSliceSet ==
    (st_done /\ st_op \in {"slices", "mixed"}) =>
       \A k \in 1..Len(used_lines) : buggy_line_no \in used_lines[k]

NumLines == Len(SplitLines(source))

\* C6: with every line number of the source in the must-keep set, the
\* stitched rendering is the source's lines, joined, whatever the ranges.
C6_KeepAllIsVerbatim ==
    (st_done /\ st_op = "stitch" /\ (1..NumLines) \subseteq slice_lines) =>
       rendering[1] = Join(SplitLines(source))

\* Two overlapping ranges that, but for the must-keep set, hide lines 1 to 3.
C6_Witness ==
    /\ st_done /\ st_op = "stitch"
    /\ NumLines = 3
    /\ slice_lines = {1, 2, 3}
    /\ ranges_to_hide = <<Rng(0, 3), Rng(1, 4)>>

\* C7: with no ranges the rendering has the source's lines and nothing else,
\* whatever the must-keep set, from _stitch_code and from _create_skeleton.
C7_NoRangesIsVerbatim ==
    (st_done /\ st_op \in {"stitch", "skeleton"} /\ ranges_to_hide = <<>>) =>
       Join(SplitLines(rendering[1])) = Join(SplitLines(source))

C7_Witness ==
    /\ st_done /\ st_op = "stitch"
    /\ NumLines = 3
    /\ slice_lines = {2}
    /\ ranges_to_hide = <<>>
    /\ Len(SplitLines(rendering[1])) = 3

\* Line i is hidden: strictly inside a range with end > start, and not kept.
Hidden(i) ==
    /\ \E k \in 1..Len(ranges_to_hide) :
          /\ ranges_to_hide[k].end > ranges_to_hide[k].start
          /\ ranges_to_hide[k].start < i
          /\ i < ranges_to_hide[k].end
    /\ i \notin slice_lines

\* The lines at which a maximal run of hidden lines begins.
RunStarts == {i \in 1..NumLines : Hidden(i) /\ (i = 1 \/ ~Hidden(i - 1))}

Rendered == SplitLines(rendering[1])
IsPlaceholder(p) == Rendered[p].kind = "hidden"
Placeholders == {p \in 1..Len(Rendered) : IsPlaceholder(p)}
\* The source line at place p of the rendering; the lines before and after
\* the file stand at its two ends.
LineAt(p) == IF p = 0 THEN 0
             ELSE IF p = Len(Rendered) + 1 THEN NumLines + 1
             ELSE Rendered[p].no

\* C8: the stitched rendering has one placeholder per maximal run of hidden
\* lines, standing between the shown lines that surround the run, and where
\* two shown lines follow each other nothing was hidden between them.
C8_OnePlaceholderPerRun ==
    (st_done /\ st_op = "stitch") =>
       /\ Cardinality(Placeholders) = Cardinality(RunStarts)
       /\ \A p \in 1..Len(Rendered) :
             IF IsPlaceholder(p)
             THEN /\ (p > 1 => ~IsPlaceholder(p - 1))
                  /\ (p < Len(Rendered) => ~IsPlaceholder(p + 1))
                  /\ LineAt(p + 1) > LineAt(p - 1) + 1
                  /\ \A i \in (LineAt(p - 1) + 1)..(LineAt(p + 1) - 1) : Hidden(i)
             ELSE /\ Rendered[p] = SplitLines(source)[LineAt(p)]
                  /\ ~Hidden(LineAt(p))
       /\ \A p \in 0..Len(Rendered) :
             ((p = 0 \/ ~IsPlaceholder(p)) /\
              (p = Len(Rendered) \/ ~IsPlaceholder(p + 1))) =>
                LineAt(p + 1) = LineAt(p) + 1

\* Lines 1 and 3 hidden, line 2 kept between them: two placeholders.
C8_Witness ==
    /\ st_done /\ st_op = "stitch"
    /\ NumLines = 3
    /\ slice_lines = {2}
    /\ ranges_to_hide = <<Rng(0, 4)>>
    /\ Cardinality(Placeholders) = 2

\* -------------------------------------------------- claims, token budget
SafeLimit == max_context_length - OUTPUT_RESERVE
StaticTokens ==
    CountTokens(JoinWith(NL, StaticParts(leading_text, buggy_code_text, trailing_text)))
\* available_for_context as optimize_prompt first computes it
AvailableForContext == SafeLimit - StaticTokens - CountTokens(feedback_text)

\* C9: when available_for_context is not negative, the context optimize_prompt
\* returns, truncation notice included, has at most that many tokens.
C9_ContextWithinAvailable ==
    (tk_done /\ AvailableForContext >= 0) =>
       CountTokens(optimized_context) <= AvailableForContext

IsSuffix(t, u) ==
    Len(t) <= Len(u) /\ t = SubSeq(u, Len(u) - Len(t) + 1, Len(u))

\* C10: when the static parts and the feedback exceed the safe limit, the
\* feedback in the prompt construct_prompt returns is a tail of the rendered
\* feedback of at most max(0, safe_limit - tokens(static_parts)) tokens.
C10_PromptCarriesCutFeedback ==
    (tk_done /\ tk_op = "construct" /\
     StaticTokens + CountTokens(feedback_text) > SafeLimit) =>
       /\ IsSuffix(full_prompt.feedback, feedback_text)
       /\ CountTokens(full_prompt.feedback) <= Max(0, SafeLimit - StaticTokens)

\* ---------------------------------------- claims, the prompt's size
\* The fixed parts and the context-removed marker, without any feedback.
FixedWithMarker ==
    PromptText(Parts(leading_text, buggy_code_text, ContextRemoved, <<>>,
                     trailing_text))
\* The prompt construct_prompt assembles first (lines 110-116).
FirstPrompt ==
    Parts(leading_text, buggy_code_text, optimized_context, feedback_text,
          trailing_text)

\* C28: whenever the fixed parts (leading, artifact block, trailing) with
\* the context-removed marker fit within the safe limit, the prompt
\* construct_prompt returns has at most safe-limit tokens, whatever the
\* sizes of the context and of the feedback; and the context-removed
\* fallback is used exactly when the first assembled prompt exceeds the
\* safe limit.
C28_PromptWithinSafeLimit ==
    (tk_done /\ tk_op = "construct") =>
       /\ CountTokens(FixedWithMarker) <= SafeLimit =>
             CountTokens(PromptText(full_prompt)) <= SafeLimit
       /\ full_prompt.context = ContextRemoved <=>
             CountTokens(PromptText(FirstPrompt)) > SafeLimit

\* --------------------------------------- claims, what the stitcher hides
Shown(i) == \E p \in 1..Len(Rendered) : Rendered[p] = SplitLines(source)[i]
InsideSomeRange(i) ==
    \E k \in 1..Len(ranges_to_hide) :
       /\ ranges_to_hide[k].end > ranges_to_hide[k].start
       /\ ranges_to_hide[k].start < i /\ i < ranges_to_hide[k].end
BoundaryLines ==
    {i \in 1..NumLines : \E k \in 1..Len(ranges_to_hide) :
        i = ranges_to_hide[k].start \/ i = ranges_to_hide[k].end}

\* C23, as amended: in the stitched rendering line i is hidden exactly when
\* it lies strictly inside some range with end > start and is not in the
\* must-keep set; so a boundary line is hidden only by another range, a
\* line inside no range is shown, and overlapping ranges hide the union of
\* their interiors.
C23_HiddenIffInsideAndNotKept ==
    (st_done /\ st_op = "stitch") =>
       /\ \A i \in 1..NumLines :
             ~Shown(i) <=> (InsideSomeRange(i) /\ i \notin slice_lines)
       /\ \A i \in BoundaryLines : ~Shown(i) => InsideSomeRange(i)

\* C23, as stated: the same, and the lines start and end of every range are
\* always shown.
C23_BoundaryLinesAlwaysShown ==
    (st_done /\ st_op = "stitch") =>
       /\ \A i \in 1..NumLines :
             ~Shown(i) <=> (InsideSomeRange(i) /\ i \notin slice_lines)
       /\ \A i \in BoundaryLines : Shown(i)

\* Overlapping ranges, one inverted by the other's side, a kept line inside.
C23_Witness ==
    /\ st_done /\ st_op = "stitch"
    /\ NumLines = 3
    /\ ranges_to_hide = <<Rng(0, 3), Rng(1, 4)>>
    /\ slice_lines = {2}
    /\ ~Shown(1) /\ Shown(2) /\ ~Shown(3)

\* ------------------------------------- claims, placeholders and skeleton
IsSrc(l) == l.kind = "src"
\* The first source line after place p of the rendering, or 0.
FollowingVisible(p) ==
    LET after == {q \in (p + 1)..Len(Rendered) : IsSrc(Rendered[q])}
    IN  IF after = {} THEN 0
        ELSE CHOOSE q \in after : \A q2 \in after : q <= q2

\* C24: a placeholder line has the leading whitespace of the first visible
\* source line after the run it stands for, in the stitched rendering and in
\* the skeleton.
C24_PlaceholderIndentOfNextVisible ==
    (st_done /\ st_op \in {"stitch", "skeleton"}) =>
       \A p \in 1..Len(Rendered) :
          (~IsSrc(Rendered[p]) /\ FollowingVisible(p) # 0) =>
             Indent(Rendered[p]) = Indent(Rendered[FollowingVisible(p)])

\* A rendering as what it shows: the numbers of its source lines, and 0
\* where a placeholder stands.
Shape(r) == [p \in 1..Len(SplitLines(r)) |->
               IF IsSrc(SplitLines(r)[p]) THEN SplitLines(r)[p].no ELSE 0]

\* C25: the skeleton shows the source lines, and has placeholders at the
\* places, of the stitched rendering with an empty must-keep set on the same
\* ranges.
C25_SkeletonIsStitchWithoutSlice ==
    (st_done /\ st_op = "skeleton") =>
       Shape(rendering[1]) = Shape(StitchCode(source, {}, ranges_to_hide))

\* --------------------------------------- claims, rounds without a candidate
\* A step that ends a round without a candidate: the completion call failed
\* (from "generate") or no code block was found (from "extract").
NoCandidateStep == pc \in {"generate", "extract"} /\ pc' = "loop"

NoCandidateEvent(e) ==
    \/ e.ev = "generate" /\ e.mode = "failed"
    \/ e.ev = "extract" /\ e.mode = "none"

\* The session's log: a round that ended without a candidate has no write
\* and no validation event and no recorded patch, and what follows it is the
\* composition of the next round.
C26_NoCandidateLog ==
    \A i \in 1..Len(log) :
        NoCandidateEvent(log[i]) =>
            /\ \A j \in 1..Len(log) :
                  log[j].round = log[i].round => log[j].ev \notin {"write", "validate"}
            /\ \A k \in 1..Len(recorded) : recorded[k].round # log[i].round
            /\ i < Len(log) =>
                  log[i + 1].ev = "compose" /\ log[i + 1].round = log[i].round + 1
            /\ (i = Len(log) /\ pc = "loop") =>
                  /\ round_num = log[i].round
                  /\ round_num < max_rounds => ENABLED Compose

\* C26: a round that yields no candidate (the completion call failed after
\* its retries, or no code block was extracted) leaves the target file and
\* the backup untouched, makes no validation call and records no patch; after
\* a completion failure the carried feedback is unchanged too; and the
\* session goes on to the next round.
C26_NoCandidateRoundFrame ==
    /\ []C26_NoCandidateLog
    /\ [][NoCandidateStep =>
            /\ file' = file /\ bak' = bak
            /\ recorded' = recorded
            /\ container' = container
            /\ round_num' = round_num
            /\ pc = "generate" =>
                  /\ last_test_result' = last_test_result
                  /\ feedback_history' = feedback_history]_vars

C26_Witness ==
    /\ pc = "generate" /\ round_num = 3
    /\ Len(log) = 6
    /\ log[2].ev = "generate" /\ log[2].mode = "failed" /\ log[2].round = 1
    /\ log[5].ev = "extract" /\ log[5].mode = "none" /\ log[5].round = 2
    /\ file = pre /\ recorded = <<>>
    /\ last_test_result = TestResult(2, FALSE, "no_code_block")

\* ------------------------------------------- claims, the file of a round
\* C27: when a round begins (its prompt has just been composed) the target
\* file holds the original content: every earlier round that tried to write
\* a candidate, whether its validation failed or its write failed, has
\* restored the original before the next round starts.
C27_FileOriginalWhenRoundBegins ==
    (pc = "generate" /\ sessions = 1) => file = pre

\* --------------------------------------- claims, structural-query output
\* The ranges the call went on with: none when the query or the extraction
\* failed.
RangesUsed == IF rg_query.raises \/ rg_ranges.raised THEN <<>> ELSE rg_ranges.ranges

\* C29: whatever the structural query prints (nothing, noise, malformed
\* JSON, a list whose items are no objects or lack start and end) and when
\* the query fails, neither generate_context nor build_mixed_context raises:
\* the call goes on with a possibly empty list of ranges, and with an empty
\* list it renders the source unchanged.
C29_RangeExtractionNeverRaises ==
    rg_done =>
       /\ ~rg_result.raised
       /\ RangesUsed = <<>> =>
             Join(SplitLines(rg_result.text)) = Join(SplitLines(RgSource))

\* ------------------------------------------------- claims, the backup
\* C30: over one or several sessions on one path an existing backup is
\* never overwritten, so the backup holds what the file held when it was
\* first created; restore_file sets the file to that content (a session
\* that returned has run it last); and that content is the content the file
\* had at the start of the current session.
C30_BackupIsFileAtSessionStart ==
    (sessions > 0 /\ bak # NoBackup) =>
       /\ bak = Original
       /\ (pc = "done" /\ outcome \in {"True", "False"}) => file = bak
       /\ bak = pre

\* ------------------------------------------------ claims, patch status
Final(st) == st \in {PLAUSIBLE, TEST_FAILED, COMPILATION_FAILED}
WriteFailedIn(r) ==
    \E i \in 1..Len(log) :
       log[i].ev = "write" /\ log[i].round = r /\ log[i].mode = "failed"

C21_RecordedStatus ==
    /\ pc \in {"write", "validate"} => patch.status = GENERATED
    /\ \A i \in 1..Len(recorded) :
          LET p == recorded[i]
          IN  /\ Final(p.status)
              /\ p.status = PLAUSIBLE <=> (p.has_result /\ p.passed)
              /\ p.status = TEST_FAILED <=> (p.has_result /\ ~p.passed)
              /\ p.status = COMPILATION_FAILED <=> ~p.has_result
              /\ p.status = COMPILATION_FAILED <=> WriteFailedIn(p.round)

C22_SandboxInv ==
    /\ Running <=> container = "up"
    /\ pc = "validate" => container = "up"
    /\ pc = "done" => container # "up"

C19_FailedAnalysisGivesEmptyContext ==
    (sessions > 0 /\ analysis_failed) =>
       /\ context = DualLayerContext
       /\ IsEmpty(context) /\ context_empty
       /\ pc = "loop" => IF round_num < max_rounds THEN ENABLED Compose
                         ELSE ENABLED Exhausted

C19_Witness ==
    /\ analysis_failed /\ context_empty
    /\ pc = "done" /\ outcome = "True"
    /\ round_num = 2

FailedRounds ==
    SelectSeq(log, LAMBDA e : e.ev \in {"extract", "write", "validate"} /\
                              e.res # NoResult /\ ~e.res.passed)

\* C20: feedback_history holds one entry for each round of the session that
\* has ended in failure, in the order of the rounds.
C20_OneFeedbackPerFailedRound ==
    Running => Len(feedback_history) = Len(FailedRounds)

\* --------------------------------------- claims, dependency-query output
ListLinesOf(ls) == {i \in 1..Len(ls) : ls[i].kind = "list"}
LastListLine(ls) == CHOOSE i \in ListLinesOf(ls) : \A j \in ListLinesOf(ls) : j <= i

\* C17: whatever the query prints, and when the query raises,
\* _run_slicing_strategy returns a set and does not raise; the set is empty
\* when the query failed and when no line of the output is a bracketed list.
C17_SlicingNeverRaises ==
    ps_done =>
       /\ ~ps_result.raised
       /\ ps_result.set \subseteq Int
       /\ (ps_query.raises \/ ListLinesOf(ps_query.lines) = {}) => ps_result.set = {}

C17_Witness ==
    /\ ps_done
    /\ ps_query = QueryOutput(<<NoiseLine, ListLine(<<IntEntry(1), StrEntry>>)>>)
    /\ ps_parsed = Raised
    /\ ps_result = Returned({})

\* C18: the last line of the output that is a bracketed list decides the
\* result, which is exactly the set of that list's integer entries: null
\* and non-integer entries are dropped, every integer entry is kept.
C18_IntegerEntriesOfLastList ==
    (ps_done /\ ~ps_query.raises /\ ListLinesOf(ps_query.lines) # {}) =>
       LET data == ps_query.lines[LastListLine(ps_query.lines)].entries
       IN  /\ ~ps_parsed.raised
           /\ ps_parsed = ps_result
           /\ ps_result.set =
                 {data[i].v : i \in {j \in 1..Len(data) : data[j].t = "int"}}

\* ------------------------------------- claims, two sessions on one file
Validating == {s \in Sessions : cc_pc[s] = "validate"}

\* C16: with two sessions on one target file, while a candidate is being
\* validated the file is exactly that candidate, at most one session has a
\* written candidate that is not yet restored, and the shared backup holds
\* the original content.
C16_MutationIsExclusive ==
    /\ \A s \in Validating : cc_file = Candidate(s)
    /\ Cardinality(Validating) <= 1
    /\ cc_bak \in {NoBackup, Original}

\* --------------------------------------------- claims, cancellation
\* C15: a session abandoned on an interrupt has run the restore step
\* before control left it: the target file holds the content it had when
\* the session began.
C15_InterruptRestoresFile ==
    (pc = "done" /\ outcome = "interrupted") => file = pre

\* ----------------------------------------------------- claims, the round
\* The mode the design gives a round.
ModeOfRound(r) ==
    CASE r = 1 -> "none"
      [] r = 2 -> "slice"
      [] r = 3 -> "periphery"
      [] OTHER -> "none"

\* C11: the context mode is decided by the round number alone (1 none,
\* 2 slice, 3 periphery, 4 and later none), whatever the previous result
\* and the session's context are, in construct_prompt and in
\* get_context_for_round alike.
C11_ContextModeByRound ==
    (tk_done /\ tk_op \in {"construct", "get_context"}) =>
       context_mode = ModeOfRound(tk_round_num)

C11_Witness ==
    /\ tk_done /\ tk_op = "construct"
    /\ tk_round_num = 4
    /\ tk_test_result = "failed"
    /\ ~tk_session_empty
    /\ context_mode = "none"

\* ----------------------------------------------- claims, retry wrapper
Calls == SelectSeq(trace, LAMBDA x : x.ev = "call")
Sleeps == SelectSeq(trace, LAMBDA x : x.ev = "sleep")
Retryable(e) == e.kind \in {"network", "llm"} \/
                (e.kind = "http" /\ (e.status = 429 \/ e.status >= 500))

\* C12: when the attempts 1..k-1 fail with retryable errors and attempt k
\* returns, the wrapper has made k calls and slept k-1 times, the i-th sleep
\* lasting base_delay * factor^(i-1) (longer each time when factor > 1), and
\* it returns what the k-th call returned.
C12_RetriesThenSuccess ==
    rt_pc = "returned" =>
       LET k == Len(Calls)
       IN  /\ k <= max_retries
           /\ \A i \in 1..(k - 1) : Retryable(Calls[i].res)
           /\ Len(Sleeps) = k - 1
           /\ \A i \in 1..(k - 1) :
                 Sleeps[i].time = BaseDelay * Pow(backoff_factor, i - 1)
           /\ backoff_factor > 1 =>
                 \A i \in 1..(k - 2) : Sleeps[i].time < Sleeps[i + 1].time
           /\ rt_result = Calls[k].res
           /\ rt_result = Ok(k)

C12_Witness ==
    /\ rt_pc = "returned"
    /\ max_retries = 3 /\ backoff_factor = 2
    /\ Len(Calls) = 3
    /\ Calls[1].res = HTTPError(429, 1) /\ Calls[2].res = HTTPError(429, 2)
    /\ Sleeps = <<SleepEv(1), SleepEv(2)>>

ClientError(e) ==
    e.kind = "http" /\ e.status >= 400 /\ e.status < 500 /\ e.status # 429

\* C13: an attempt that fails with an HTTP status in [400,500) other than
\* 429 is the last thing the wrapper does: no sleep and no call follows it,
\* and its error is what the wrapper raises, on the first attempt or after
\* retried ones.
C13_ClientErrorPropagatesAtOnce ==
    \A i \in 1..Len(trace) :
       (trace[i].ev = "call" /\ ClientError(trace[i].res)) =>
          /\ i = Len(trace)
          /\ rt_pc = "raised"
          /\ rt_result = trace[i].res

C13_Witness ==
    /\ rt_pc = "raised"
    /\ Len(Calls) = 2
    /\ Calls[1].res = HTTPError(500, 1)
    /\ rt_result = HTTPError(404, 2)
    /\ Len(Sleeps) = 1

\* C14: when all max_retries >= 1 attempts fail with retryable errors, the
\* wrapper has made max_retries calls, every sleep is followed by a call
\* (max_retries - 1 sleeps), and it raises the error of the last attempt.
C14_SleepOnlyBetweenAttempts ==
    (rt_pc = "raised" /\ max_retries >= 1 /\ Len(Calls) = max_retries /\
     \A i \in 1..Len(Calls) : Retryable(Calls[i].res)) =>
       /\ rt_result = Calls[max_retries].res
       /\ Len(Sleeps) = max_retries - 1
       /\ trace[Len(trace)].ev = "call"

TypeOK ==
    /\ pc \in {"idle", "loop", "generate", "extract", "write", "validate", "done"}
    /\ file \in {Original, Partial} \cup Patches
    /\ bak \in {NoBackup, Original, Partial} \cup Patches
    /\ round_num \in 0..max_rounds
    /\ outcome \in {"none", "True", "False", "error", "interrupted"}
====
